---- MODULE Spec2Model ----
(***************************************************************************)
(* hdtime: the benchmark engine of src/benchmarks.c as a state machine.    *)
(*                                                                         *)
(* One run of run_and_print_benchmarks: open the device, probe it          *)
(* (get_blkdev_info), sequential read test (get_block_read_ns), seed the   *)
(* generator, seek test (get_seek_ns), close, report.                      *)
(*                                                                         *)
(* Scaling.  TLC's integers are 32 bits wide, the program's are 64, so the *)
(* machine is modelled at a reduced width:                                 *)
(*   - uint64_t and size_t are Bits64 bits wide (arithmetic modulo U64);   *)
(*   - byte quantities are counted in units of BytesPerUnit bytes (the     *)
(*     device size, the block size, the alignment and the read size are    *)
(*     whole numbers of units);                                            *)
(*   - durations are counted in clock ticks of NsPerTick nanoseconds.      *)
(* The #define'd thresholds are the source's values expressed in these     *)
(* units, so the ratios between them (16 = 1 GiB / 64 MiB, 2 = 2 s / 1 s)  *)
(* are the program's.  Seek counts are not scaled.                         *)
(***************************************************************************)
EXTENDS Integers, Sequences, FiniteSets, TLC

\* ---------------------------------------------------------------- bounds
\* RAND_MAX is 2^RandBits - 1 (glibc: 31 bits under a 64-bit uint64_t).
RandBits == 7
\* Largest device size the OS reports, in units.
MaxDevSize == 5
\* Largest physical block size the OS reports, in units.
MaxBlockSize == 3
\* Largest value fpathconf(_PC_REC_XFER_ALIGN) returns, in units.
MaxAlign == 3
\* Largest explicit read size on the command line, in units.
MaxReadSize == 1
\* Largest explicit seek count on the command line.
MaxSeekArg == 2
\* Largest ordinary duration of one trial, in ticks.
MaxElapsed == 1

\* ---------------------------------------------------------------- widths
\* 64 = 2 * 31 + 2 in the program; the same relation is kept here.
Bits64 == 2 * RandBits + 2
U64 == 2 ^ Bits64
Half64 == 2 ^ (Bits64 \div 2)
UINT64_MAX == U64 - 1
SIZE_MAX == U64 - 1
RAND_MAX == 2 ^ RandBits - 1

Add64(a, b) == (a + b) % U64
Sub64(a, b) == ((a - b) + U64) % U64
\* a * b modulo U64, computed without leaving TLC's integer range.
Mul64(a, b) ==
    ((a * (b % Half64)) + ((a * ((b \div Half64) % Half64)) % Half64) * Half64) % U64

\* Integer division and remainder by zero are undefined behaviour in C.  A
\* build either traps (x86: SIGFPE) or carries on with the hardware's result
\* (AArch64 UDIV yields 0, so a % 0 == a - (a / 0) * 0 == a).  UDiv and UMod
\* give the carry-on result; the actions add the trap.
UDiv(a, b) == IF b = 0 THEN 0 ELSE a \div b
UMod(a, b) == IF b = 0 THEN a ELSE a % b

\* -------------------------------------------------------------- constants
MIB == 1024 * 1024
\* The unit of byte quantities and the clock tick of durations.
BytesPerUnit == 64 * MIB
NsPerTick == 1000 * 1000 * 1000

DEFAULT_RAND_READ_SEEKS == 200
MIN_AUTO_RAND_READ_NS == 1000000000 \div NsPerTick
MAX_AUTO_RAND_READ_SEEKS == 25600
DEFAULT_SEQ_READ_BYTES == (64 * MIB) \div BytesPerUnit
MIN_AUTO_SEQ_READ_NS == 2000000000 \div NsPerTick
MAX_AUTO_SEQ_READ_BYTES == (1024 * MIB) \div BytesPerUnit

\* ------------------------------------------------------------- input sets
\* cli.c: 0 means "autodetect" for both options.
SeekArgs == 0..MaxSeekArg
ReadSizeArgs == 0..MaxReadSize \cup {SIZE_MAX}
\* fpathconf returns -1 (error, or no limit), 0 or a positive alignment.
XferAligns == -1..MaxAlign
\* What timespec_diff_ns can return for one trial: an ordinary duration, or a
\* huge one (a clock anomaly; any uint64_t is possible).
Elapsed == 0..MaxElapsed \cup {U64 \div 2}

Min(a, b) == IF a < b THEN a ELSE b

\* ------------------------------------------------------------ pure helpers
align_ceil(n, alignment) ==
    LET remainder == UMod(n, alignment)
    IN IF remainder # 0 THEN Add64(Sub64(n, remainder), alignment) ELSE n

\* random() * (~(uint64_t)0 / RAND_MAX); RAND_MAX < 2^64 - 1 on this machine.
random64(r) == Mul64(r, UINT64_MAX \div RAND_MAX)

\* The block indices one draw of get_seek_for_count can produce.
BlockIdxOf_OffByOne(r, num_blocks) == UMod(random64(r), num_blocks + 1)
BlockIdxOf(r, num_blocks) == UMod(random64(r), num_blocks)
BlockIdxRange(num_blocks) == {BlockIdxOf(r, num_blocks) : r \in 0..RAND_MAX}

\* unsigned int is half as wide as uint64_t and size_t.
UIntBits == Bits64 \div 2
UINT_MAX == 2 ^ UIntBits - 1
\* (unsigned int)x, the conversion of a size_t argument
ToUInt(x) == x % (2 ^ UIntBits)
\* 1U << n in unsigned int
Shl1(n) == (2 ^ n) % (2 ^ UIntBits)

RECURSIVE log2_floor(_)
log2_floor(x) == IF x > 1 THEN 1 + log2_floor(x \div 2) ELSE 0

\* exit is TRUE when the function prints its error and calls exit(1);
\* ret is what it returns otherwise.
smallest_power_of_2_that_holds_AlwaysNext(x) ==
    IF x = 0
    THEN [exit |-> FALSE, ret |-> 1]
    ELSE IF x > Shl1(UIntBits - 1)
         THEN [exit |-> TRUE, ret |-> 0]
         ELSE [exit |-> FALSE, ret |-> Shl1(log2_floor(x) + 1)]
smallest_power_of_2_that_holds(x) ==
    IF x = 0
    THEN [exit |-> FALSE, ret |-> 1]
    ELSE IF x > Shl1(UIntBits - 1)
         THEN [exit |-> TRUE, ret |-> 0]
         ELSE LET exp == log2_floor(x)
              IN [exit |-> FALSE,
                  ret |-> IF Shl1(exp) = x THEN x ELSE Shl1(exp + 1)]

\* allocate_aligned_memory: the alignment handed to posix_memalign; the
\* size_t alignment is converted to the unsigned int parameter.
AllocAlign(alignment) == smallest_power_of_2_that_holds(ToUInt(alignment))
\* The message allocate_aligned_memory dies with when it does.
AllocError(alignment) ==
    IF AllocAlign(alignment).exit
    THEN "error: doesn't fit in largest power of 2 an unsigned int can hold"
    ELSE "posix_memalign"

\* free(buffer): one live buffer less.
free_Leak(live) == live
free(live) == live - 1

\* The statement that follows each step of run_and_print_benchmarks and of
\* run_benchmarks.
StepAfter_ReportBeforeClose(step) ==
    CASE step = "open" -> "get_blkdev_info"
      [] step = "get_blkdev_info" -> "get_block_read_ns"
      [] step = "get_block_read_ns" -> "init_randomness"
      [] step = "init_randomness" -> "get_seek_ns"
      [] step = "get_seek_ns" -> "run_benchmarks_end"
      [] step = "run_benchmarks_end" -> "print_benchmarks"
      [] step = "print_benchmarks" -> "close"
      [] step = "close" -> "exit_success"
StepAfter(step) ==
    CASE step = "open" -> "get_blkdev_info"
      [] step = "get_blkdev_info" -> "get_block_read_ns"
      [] step = "get_block_read_ns" -> "init_randomness"
      [] step = "init_randomness" -> "get_seek_ns"
      [] step = "get_seek_ns" -> "run_benchmarks_end"
      [] step = "run_benchmarks_end" -> "close"
      [] step = "close" -> "print_benchmarks"
      [] step = "print_benchmarks" -> "exit_success"

get_readbuf_align_ZeroKept(align_l, block_size) ==
    IF align_l = -1 THEN block_size ELSE align_l
\* get_readbuf_align once fpathconf has not failed.
get_readbuf_align(align_l, block_size) ==
    IF align_l = -1 \/ align_l = 0 THEN block_size ELSE align_l

\* Loop conditions of the two autodetect loops.
SeqLoopCond_NoTimeTest(total_read_ns, read_size) ==
    read_size <= MAX_AUTO_SEQ_READ_BYTES
SeqLoopCond_StrictCeiling(total_read_ns, read_size) ==
    total_read_ns < MIN_AUTO_SEQ_READ_NS /\ read_size < MAX_AUTO_SEQ_READ_BYTES
SeqLoopCond(total_read_ns, read_size) ==
    total_read_ns < MIN_AUTO_SEQ_READ_NS /\ read_size <= MAX_AUTO_SEQ_READ_BYTES
SeekLoopCond_NoCeiling(total_ns, num_seeks) ==
    total_ns < MIN_AUTO_RAND_READ_NS
SeekLoopCond(total_ns, num_seeks) ==
    total_ns < MIN_AUTO_RAND_READ_NS /\ num_seeks <= MAX_AUTO_RAND_READ_SEEKS

\* The steps of the two for loops: read_size *= 2, num_seeks *= 2.
NextReadSize_Same(read_size) == read_size
NextReadSize(read_size) == Mul64(read_size, 2)
NextNumSeeks(num_seeks) == num_seeks * 2

\* total_bytes += _total_bytes, total_read_ns += _total_read_ns,
\* total_ns += _total_ns
Accumulate_Overwrite(total, part) == part
Accumulate(total, part) == Add64(total, part)

\* *p_total_bytes = aligned_read_size * 2
TrialBytes_OneRead(aligned_read_size) == aligned_read_size
TrialBytes(aligned_read_size) == Mul64(aligned_read_size, 2)

\* total_read_ns / (total_bytes / block_size), and the same of one trial
BlockReadNs(read_ns, bytes, block_size) == UDiv(read_ns, UDiv(bytes, block_size))

\* block_read_ns * num_seeks, in uint64_t
ReadingNs(block_read_ns, num_seeks) == Mul64(block_read_ns, num_seeks)

\* get_block_read_for_size: the size actually read.
AlignedReadSize_NoClamp(read_size, alignment, dev_size) ==
    align_ceil(read_size, alignment)
AlignedReadSize(read_size, alignment, dev_size) ==
    LET a == align_ceil(read_size, alignment)
    IN IF a > dev_size THEN dev_size ELSE a

SeekTime_NoAverage(delta_ns, randaccess_reading_ns, num_seeks) ==
    IF delta_ns > randaccess_reading_ns
    THEN delta_ns - randaccess_reading_ns
    ELSE 0
\* The floor-at-zero subtraction of get_seek_for_count and get_seek_ns.
SeekTime(delta_ns, randaccess_reading_ns, num_seeks) ==
    IF delta_ns > randaccess_reading_ns
    THEN UDiv(delta_ns - randaccess_reading_ns, num_seeks)
    ELSE 0

\* ------------------------------------------------------------------ state
VARIABLES
    pc,         \* position in run_and_print_benchmarks
    args,       \* command line: num_seeks, read_size
    fd_open,    \* the device handle is open
    dev_info,   \* struct blkdev_info
    res,        \* struct benchmark_results
    seq,        \* locals of get_block_read_ns
    seek,       \* locals of get_seek_ns
    trial,      \* locals of the running trial
    buffers,    \* read buffers allocated and not yet freed
    seq_io,     \* reads issued by the running sequential trial, in order
    seek_io,    \* distinct reads issued by the running seek trial
    seeded,     \* srandom has been called
    hist,       \* history: what the run has done so far
    err,        \* message of the fatal error, "" while none
    call        \* a library function applied on its own: name, input, result

vars == <<pc, args, fd_open, dev_info, res, seq, seek, trial, buffers,
          seq_io, seek_io, seeded, hist, err, call>>

NoDevInfo == [dev_size |-> 0, num_blocks |-> 0, block_size |-> 0, alignment |-> 0]
NoRes == [seq_read_bytes |-> 0, num_seeks |-> 0, seq_read_ns |-> 0,
          block_read_ns |-> 0, total_randaccess_ns |-> 0,
          randaccess_reading_ns |-> 0, seek_ns |-> 0]
NoSeq == [read_size |-> 0, total_bytes |-> 0, total_read_ns |-> 0]
NoSeek == [num_seeks |-> 0, total_seeks |-> 0, total_ns |-> 0]
NoTrial == [size |-> 0, align |-> 0, bytes |-> 0, delta_ns |-> 0, ret |-> 0]
NoHist == [seq_trials |-> 0, seq_reads |-> 0, seq_bytes |-> 0, seq_ns |-> 0,
           seek_trials |-> 0, seek_reads |-> 0, seek_ns |-> 0, reads |-> 0,
           probed |-> FALSE, seq_done |-> FALSE, seek_done |-> FALSE,
           order |-> <<>>]
NoCall == [fn |-> "none"]

Init ==
    /\ pc = "main"
    /\ args \in [num_seeks : SeekArgs, read_size : ReadSizeArgs]
    /\ fd_open = FALSE
    /\ dev_info = NoDevInfo
    /\ res = NoRes
    /\ seq = NoSeq
    /\ seek = NoSeek
    /\ trial = NoTrial
    /\ buffers = 0
    /\ seq_io = <<>>
    /\ seek_io = {}
    /\ seeded = FALSE
    /\ hist = NoHist
    /\ err = ""
    /\ call = NoCall

\* The failed call is reported and made again.
Die_Retry(msg) ==
    /\ pc' = pc
    /\ err' = msg
\* die_if / die_if_with_errno / exit(1): print msg and terminate.
Die(msg) ==
    /\ pc' = "exit_failure"
    /\ err' = msg

\* The trap of an integer division by zero.
Fault ==
    /\ pc' = "fault"
    /\ err' = "SIGFPE"

\* A failed assert().  Only a build with -DDEBUG=1 keeps the assertions; the
\* default build (CFLAGS -O2) defines NDEBUG and runs on past them.
Abort ==
    /\ pc' = "abort"
    /\ err' = "SIGABRT"

\* run_and_print_benchmarks: open(devname, O_RDONLY | O_DIRECT | O_SYNC)
Open ==
    /\ pc = "main"
    /\ \/ /\ fd_open' = TRUE
          /\ pc' = StepAfter("open")
          /\ err' = err
       \/ /\ Die("open")
          /\ fd_open' = fd_open
    /\ UNCHANGED <<call, args, dev_info, res, seq, seek, trial, buffers,
                   seq_io, seek_io, seeded, hist>>

\* get_blkdev_info, with get_physical_block_size, get_dev_size and
\* get_readbuf_align.  What the OS answers is the input: block_size
\* (BLKPBSZGET), dev_size (BLKGETSIZE64) and align_l (fpathconf).
get_blkdev_info ==
    /\ pc = "get_blkdev_info"
    /\ \E block_size \in 0..MaxBlockSize, dev_size \in 0..MaxDevSize,
          align_l \in XferAligns :
         LET num_blocks == UDiv(dev_size, block_size)
             probed == [dev_size |-> dev_size, num_blocks |-> num_blocks,
                        block_size |-> block_size, alignment |-> 0]
         IN \/ /\ Die("ioctl(BLKPBSZGET)")
               /\ dev_info' = dev_info
               /\ hist' = hist
            \/ /\ Die("ioctl(BLKGETSIZE64)")
               /\ dev_info' = [dev_info EXCEPT !.block_size = block_size]
               /\ hist' = hist
            \/ /\ block_size = 0
               /\ Fault
               /\ dev_info' = [dev_info EXCEPT !.block_size = block_size,
                                               !.dev_size = dev_size]
               /\ hist' = hist
            \/ /\ dev_size < block_size
               /\ Die("error: block size is greater than device itself")
               /\ dev_info' = probed
               /\ hist' = hist
            \/ /\ dev_size >= block_size
               /\ \/ /\ align_l = -1
                     /\ Die("fpathconf")
                     /\ dev_info' = probed
                     /\ hist' = hist
                  \/ /\ align_l \in {-1, 0}
                     /\ Die("ioctl(BLKPBSZGET)")
                     /\ dev_info' = probed
                     /\ hist' = hist
                  \/ /\ dev_info' = [probed EXCEPT !.alignment =
                                         get_readbuf_align(align_l, block_size)]
                     /\ hist' = [hist EXCEPT
                                     !.probed = TRUE,
                                     !.order = Append(@, "probe")]
                     /\ pc' = StepAfter("get_blkdev_info")
                     /\ err' = err
    /\ UNCHANGED <<call, args, fd_open, res, seq, seek, trial, buffers,
                   seq_io, seek_io, seeded>>

\* get_block_read_ns, up to the first loop test or the single trial.
get_block_read_ns ==
    /\ pc = "get_block_read_ns"
    /\ IF args.read_size = 0
       THEN /\ seq' = [read_size |-> DEFAULT_SEQ_READ_BYTES,
                       total_bytes |-> 0, total_read_ns |-> 0]
            /\ pc' = "seq_loop"
       ELSE /\ seq' = [read_size |-> args.read_size,
                       total_bytes |-> 0, total_read_ns |-> 0]
            /\ pc' = "seq_trial"
    /\ UNCHANGED <<call, args, fd_open, dev_info, res, seek, trial, buffers,
                   seq_io, seek_io, seeded, hist, err>>

\* The for loop of get_block_read_ns: its condition holds, run a trial.
SeqLoopNext ==
    /\ pc = "seq_loop"
    /\ SeqLoopCond(seq.total_read_ns, seq.read_size)
    /\ pc' = "seq_trial"
    /\ UNCHANGED <<call, args, fd_open, dev_info, res, seq, seek, trial, buffers,
                   seq_io, seek_io, seeded, hist, err>>

\* The for loop ends: block_read_ns from the totals, results stored.
SeqLoopExit ==
    /\ pc = "seq_loop"
    /\ ~SeqLoopCond(seq.total_read_ns, seq.read_size)
    /\ LET blocks == UDiv(seq.total_bytes, dev_info.block_size)
       IN \/ /\ dev_info.block_size = 0 \/ blocks = 0
             /\ Fault
             /\ UNCHANGED <<res, hist>>
          \/ /\ res' = [res EXCEPT
                            !.block_read_ns = BlockReadNs(seq.total_read_ns,
                                seq.total_bytes, dev_info.block_size),
                            !.seq_read_bytes = seq.total_bytes,
                            !.seq_read_ns = seq.total_read_ns]
             /\ hist' = [hist EXCEPT !.seq_done = TRUE,
                                     !.order = Append(@, "seq")]
             /\ pc' = StepAfter("get_block_read_ns")
             /\ err' = err
    /\ UNCHANGED <<call, args, fd_open, dev_info, seq, seek, trial, buffers,
                   seq_io, seek_io, seeded>>

\* get_block_read_for_size up to the first timestamp: the size is aligned
\* (and asserted non-zero, where the build asserts) and clamped, the buffer
\* allocated.
SeqTrialBegin ==
    /\ pc = "seq_trial"
    /\ LET aligned == align_ceil(seq.read_size, dev_info.alignment)
       IN \/ /\ dev_info.alignment = 0
             /\ Fault
             /\ UNCHANGED <<trial, buffers, seq_io, hist>>
          \/ /\ dev_info.alignment # 0
             /\ seq.read_size = 0 \/ aligned = 0
             /\ Abort
             /\ UNCHANGED <<trial, buffers, seq_io, hist>>
          \/ /\ \/ /\ Die(AllocError(dev_info.alignment))
                   /\ UNCHANGED <<trial, buffers, seq_io, hist>>
                \/ /\ ~AllocAlign(dev_info.alignment).exit
                   /\ Die("clock_gettime")
                   /\ buffers' = buffers + 1
                   /\ UNCHANGED <<trial, seq_io, hist>>
                \/ /\ ~AllocAlign(dev_info.alignment).exit
                   /\ trial' = [NoTrial EXCEPT
                                    !.size = AlignedReadSize(seq.read_size,
                                                 dev_info.alignment,
                                                 dev_info.dev_size),
                                    !.align = AllocAlign(dev_info.alignment).ret]
                   /\ buffers' = buffers + 1
                   /\ seq_io' = <<>>
                   /\ hist' = [hist EXCEPT !.seq_trials = @ + 1]
                   /\ pc' = "seq_read1"
                   /\ err' = err
    /\ UNCHANGED <<call, args, fd_open, dev_info, res, seq, seek, seek_io, seeded>>

\* read_at: lseek64 then read; a read is logged once both calls succeeded.
SeqReadAt(offset, next) ==
    /\ \/ /\ Die("lseek64")
          /\ UNCHANGED <<seq_io, hist>>
       \/ /\ Die("read")
          /\ UNCHANGED <<seq_io, hist>>
       \/ /\ seq_io' = Append(seq_io, [off |-> offset, len |-> trial.size])
          /\ hist' = [hist EXCEPT !.seq_reads = @ + 1, !.reads = @ + 1,
                                  !.seq_bytes = @ + trial.size]
          /\ pc' = next
          /\ err' = err
    /\ UNCHANGED <<call, args, fd_open, dev_info, res, seq, seek, trial, buffers,
                   seek_io, seeded>>

\* read_at(fd, buffer, aligned_read_size, 0)
SeqRead1 ==
    /\ pc = "seq_read1"
    /\ SeqReadAt(0, "seq_read2")

\* read_at(fd, buffer, aligned_read_size, dev_size - aligned_read_size)
SeqRead2 ==
    /\ pc = "seq_read2"
    /\ SeqReadAt(Sub64(dev_info.dev_size, trial.size), "seq_trial_end")

\* get_block_read_for_size from the second timestamp to its return, and what
\* get_block_read_ns does with the result.
SeqTrialEnd ==
    /\ pc = "seq_trial_end"
    /\ \/ /\ Die("clock_gettime")
          /\ UNCHANGED <<res, seq, trial, buffers, seq_io, hist>>
       \/ \E delta_ns \in Elapsed :
            LET bytes == TrialBytes(trial.size)
                blocks == UDiv(bytes, dev_info.block_size)
                ret == BlockReadNs(delta_ns, bytes, dev_info.block_size)
                done == [trial EXCEPT !.bytes = bytes, !.delta_ns = delta_ns,
                                      !.ret = ret]
            IN /\ buffers' = free(buffers)
               /\ trial' = done
               /\ seq_io' = <<>>
               /\ \/ /\ dev_info.block_size = 0 \/ blocks = 0
                     /\ Fault
                     /\ hist' = [hist EXCEPT !.seq_ns = @ + delta_ns]
                     /\ UNCHANGED <<res, seq>>
                  \/ /\ err' = err
                     /\ hist' = [hist EXCEPT
                                     !.seq_ns = @ + delta_ns,
                                     !.seq_done = (args.read_size # 0),
                                     !.order = IF args.read_size # 0
                                               THEN Append(@, "seq") ELSE @]
                     /\ IF args.read_size = 0
                        THEN /\ seq' = [read_size |-> NextReadSize(seq.read_size),
                                        total_bytes |->
                                            Accumulate(seq.total_bytes, bytes),
                                        total_read_ns |->
                                            Accumulate(seq.total_read_ns, delta_ns)]
                             /\ res' = res
                             /\ pc' = "seq_loop"
                        ELSE /\ res' = [res EXCEPT !.block_read_ns = ret,
                                                   !.seq_read_bytes = bytes,
                                                   !.seq_read_ns = delta_ns]
                             /\ seq' = seq
                             /\ pc' = StepAfter("get_block_read_ns")
    /\ UNCHANGED <<call, args, fd_open, dev_info, seek, seek_io, seeded>>

\* init_randomness: srandom(time(NULL))
init_randomness ==
    /\ pc = "init_randomness"
    /\ seeded' = TRUE
    /\ hist' = [hist EXCEPT !.order = Append(@, "seed")]
    /\ pc' = StepAfter("init_randomness")
    /\ UNCHANGED <<call, args, fd_open, dev_info, res, seq, seek, trial, buffers,
                   seq_io, seek_io, err>>

\* get_seek_ns, up to the first loop test or the single trial.
get_seek_ns ==
    /\ pc = "get_seek_ns"
    /\ IF args.num_seeks = 0
       THEN /\ seek' = [num_seeks |-> DEFAULT_RAND_READ_SEEKS,
                        total_seeks |-> 0, total_ns |-> 0]
            /\ pc' = "seek_loop"
       ELSE /\ seek' = [num_seeks |-> args.num_seeks,
                        total_seeks |-> 0, total_ns |-> 0]
            /\ pc' = "seek_trial"
    /\ UNCHANGED <<call, args, fd_open, dev_info, res, seq, trial, buffers,
                   seq_io, seek_io, seeded, hist, err>>

\* The for loop of get_seek_ns: its condition holds, run a trial.
SeekLoopNext ==
    /\ pc = "seek_loop"
    /\ SeekLoopCond(seek.total_ns, seek.num_seeks)
    /\ pc' = "seek_trial"
    /\ UNCHANGED <<call, args, fd_open, dev_info, res, seq, seek, trial, buffers,
                   seq_io, seek_io, seeded, hist, err>>

\* The for loop ends: seek_ns from the totals, results stored.
SeekLoopExit ==
    /\ pc = "seek_loop"
    /\ ~SeekLoopCond(seek.total_ns, seek.num_seeks)
    /\ LET randaccess_reading_ns == ReadingNs(res.block_read_ns, seek.total_seeks)
       IN res' = [res EXCEPT
                      !.seek_ns = SeekTime(seek.total_ns, randaccess_reading_ns,
                                           seek.total_seeks),
                      !.total_randaccess_ns = seek.total_ns,
                      !.randaccess_reading_ns = randaccess_reading_ns]
    /\ hist' = [hist EXCEPT !.seek_done = TRUE, !.order = Append(@, "seek")]
    /\ pc' = StepAfter("get_seek_ns")
    /\ UNCHANGED <<call, args, fd_open, dev_info, seq, seek, trial, buffers,
                   seq_io, seek_io, seeded, err>>

\* get_seek_for_count up to the first timestamp: the buffer is allocated.
\* assert(num_seeks > 0) holds of every count get_seek_ns passes.
SeekTrialBegin ==
    /\ pc = "seek_trial"
    /\ seek.num_seeks > 0
    /\ \/ /\ Die(AllocError(dev_info.alignment))
          /\ UNCHANGED <<trial, buffers, seek_io, hist>>
       \/ /\ ~AllocAlign(dev_info.alignment).exit
          /\ Die("clock_gettime")
          /\ buffers' = buffers + 1
          /\ UNCHANGED <<trial, seek_io, hist>>
       \/ /\ ~AllocAlign(dev_info.alignment).exit
          /\ trial' = [NoTrial EXCEPT !.size = seek.num_seeks,
                                      !.align = AllocAlign(dev_info.alignment).ret]
          /\ buffers' = buffers + 1
          /\ seek_io' = {}
          /\ hist' = [hist EXCEPT !.seek_trials = @ + 1]
          /\ pc' = "seek_reads"
          /\ err' = err
    /\ UNCHANGED <<call, args, fd_open, dev_info, res, seq, seek, seq_io, seeded>>

\* The reads one iteration of the loop of get_seek_for_count can issue:
\* read_at(fd, buffer, block_size, block_idx * block_size), block_idx one of
\* random64() % num_blocks.
SeekReadsOf(info) ==
    {[off |-> Mul64(idx, info.block_size), len |-> info.block_size] :
        idx \in BlockIdxRange(info.num_blocks)}

\* The read loop of get_seek_for_count: num_seeks reads of one block each.
\* The draws are the input; reads are the distinct reads they lead to (no
\* more than there are iterations).
SeekReads ==
    /\ pc = "seek_reads"
    /\ \/ /\ Die("lseek64")
          /\ UNCHANGED <<seek_io, hist>>
       \/ /\ Die("read")
          /\ UNCHANGED <<seek_io, hist>>
       \/ /\ dev_info.num_blocks = 0
          /\ Fault
          /\ UNCHANGED <<seek_io, hist>>
       \/ \E reads \in SUBSET SeekReadsOf(dev_info) :
            /\ reads # {}
            /\ Cardinality(reads) <= trial.size
            /\ seek_io' = reads
            /\ hist' = [hist EXCEPT !.seek_reads = @ + trial.size,
                                    !.reads = @ + trial.size]
            /\ pc' = "seek_trial_end"
            /\ err' = err
    /\ UNCHANGED <<call, args, fd_open, dev_info, res, seq, seek, trial, buffers,
                   seq_io, seeded>>

\* get_seek_for_count from the second timestamp to its return, and what
\* get_seek_ns does with the result.
SeekTrialEnd ==
    /\ pc = "seek_trial_end"
    /\ \/ /\ Die("clock_gettime")
          /\ UNCHANGED <<res, seek, trial, buffers, seek_io, hist>>
       \/ \E delta_ns \in Elapsed :
            LET randaccess_reading_ns == ReadingNs(res.block_read_ns, seek.num_seeks)
                ret == SeekTime(delta_ns, randaccess_reading_ns, seek.num_seeks)
            IN /\ buffers' = free(buffers)
               /\ seek_io' = {}
               /\ hist' = [hist EXCEPT
                               !.seek_ns = @ + delta_ns,
                               !.seek_done = (args.num_seeks # 0),
                               !.order = IF args.num_seeks # 0
                                         THEN Append(@, "seek") ELSE @]
               /\ trial' = [trial EXCEPT !.delta_ns = delta_ns, !.ret = ret]
               /\ err' = err
               /\ IF args.num_seeks = 0
                  THEN /\ seek' = [num_seeks |-> NextNumSeeks(seek.num_seeks),
                                   total_seeks |-> seek.total_seeks + seek.num_seeks,
                                   total_ns |-> Accumulate(seek.total_ns, delta_ns)]
                       /\ res' = res
                       /\ pc' = "seek_loop"
                  ELSE /\ res' = [res EXCEPT
                                      !.seek_ns = ret,
                                      !.total_randaccess_ns = delta_ns,
                                      !.randaccess_reading_ns = randaccess_reading_ns]
                       /\ seek' = seek
                       /\ pc' = StepAfter("get_seek_ns")
    /\ UNCHANGED <<call, args, fd_open, dev_info, seq, seq_io, seeded>>

\* run_benchmarks, its last statement: res->num_seeks = num_seeks
run_benchmarks_end ==
    /\ pc = "run_benchmarks_end"
    /\ res' = [res EXCEPT !.num_seeks = args.num_seeks]
    /\ pc' = StepAfter("run_benchmarks_end")
    /\ UNCHANGED <<call, args, fd_open, dev_info, seq, seek, trial, buffers,
                   seq_io, seek_io, seeded, hist, err>>

\* run_and_print_benchmarks: close(fd)
Close ==
    /\ pc = "close"
    /\ fd_open' = FALSE
    /\ hist' = [hist EXCEPT !.order = Append(@, "close")]
    /\ pc' = StepAfter("close")
    /\ UNCHANGED <<call, args, dev_info, res, seq, seek, trial, buffers,
                   seq_io, seek_io, seeded, err>>

\* print_benchmarks, then exit(0) in main.  The values are humanized and
\* the timing tolerance is measured (clock_getres, clock_gettime) before the
\* one printf that is the report.  Every humanize_time call writes past
\* the end of its string (join_nonempty): the run goes on, or the allocator
\* ends it, before the printf or in the free() calls after it.
print_benchmarks ==
    /\ pc = "print_benchmarks"
    /\ \/ /\ Die("clock_getres")
          /\ hist' = hist
       \/ /\ Die("clock_gettime")
          /\ hist' = hist
       \/ /\ hist' = [hist EXCEPT !.order = Append(@, "report")]
          /\ pc' = StepAfter("print_benchmarks")
          /\ err' = err
       \/ \E printed \in BOOLEAN :
            /\ Abort
            /\ hist' = IF printed
                       THEN [hist EXCEPT !.order = Append(@, "report")]
                       ELSE hist
    /\ UNCHANGED <<call, args, fd_open, dev_info, res, seq, seek, trial, buffers,
                   seq_io, seek_io, seeded>>

Next ==
    \/ Open
    \/ get_blkdev_info
    \/ get_block_read_ns
    \/ SeqLoopNext
    \/ SeqLoopExit
    \/ SeqTrialBegin
    \/ SeqRead1
    \/ SeqRead2
    \/ SeqTrialEnd
    \/ init_randomness
    \/ get_seek_ns
    \/ SeekLoopNext
    \/ SeekLoopExit
    \/ SeekTrialBegin
    \/ SeekReads
    \/ SeekTrialEnd
    \/ run_benchmarks_end
    \/ Close
    \/ print_benchmarks

Spec == Init /\ [][Next]_vars

\* The program keeps executing until it exits.
FairSpec == Spec /\ WF_vars(Next)

\* ------------------------------------------- library functions on their own
\* The functions that have a contract of their own are also applied outside
\* a run: Calls are the applications tried, one per behaviour of FnSpec; the
\* action of a function stores its result in call.out.

\* Arguments tried for smallest_power_of_2_that_holds: every unsigned int.
Pow2Args == 0..UINT_MAX
\* Arguments tried for align_ceil: sizes at both ends of size_t, and
\* alignments from 1 up.
AlignCeilSizes == 0..(2 * MaxAlign) \cup (SIZE_MAX - 2 * MaxAlign)..SIZE_MAX
AlignCeilAligns == 1..(4 * MaxAlign)

Pow2Calls ==
    {[fn |-> "smallest_power_of_2_that_holds", x |-> x, done |-> FALSE] :
        x \in Pow2Args}
AlignCeilCalls ==
    {[fn |-> "align_ceil", n |-> n, alignment |-> a, done |-> FALSE] :
        n \in AlignCeilSizes, a \in AlignCeilAligns}

\* No run is in progress while a function is applied on its own.
NoRun ==
    /\ pc = "main"
    /\ args = [num_seeks |-> 0, read_size |-> 0]
    /\ fd_open = FALSE
    /\ dev_info = NoDevInfo
    /\ res = NoRes
    /\ seq = NoSeq
    /\ seek = NoSeek
    /\ trial = NoTrial
    /\ buffers = 0
    /\ seq_io = <<>>
    /\ seek_io = {}
    /\ seeded = FALSE
    /\ hist = NoHist
    /\ err = ""

Return(out) ==
    /\ call' = [fn |-> call.fn, in |-> call, done |-> TRUE, out |-> out]
    /\ UNCHANGED <<pc, args, fd_open, dev_info, res, seq, seek, trial, buffers,
                   seq_io, seek_io, seeded, hist, err>>

Apply_smallest_power_of_2_that_holds ==
    /\ call.fn = "smallest_power_of_2_that_holds"
    /\ ~call.done
    /\ Return(smallest_power_of_2_that_holds(call.x))

Apply_align_ceil ==
    /\ call.fn = "align_ceil"
    /\ ~call.done
    /\ Return(align_ceil(call.n, call.alignment))

\* Answers of fpathconf(fd, _PC_REC_XFER_ALIGN) and of the ioctl behind
\* get_physical_block_size: the value returned, and errno after the call
\* (0, or an error number when -1 was returned for an error).
ReadbufAlignCalls ==
    {c \in [fn : {"get_readbuf_align"}, align_l : XferAligns, errno : {0, 1},
            block_size : 0..MaxBlockSize, done : {FALSE}] :
        c.align_l = -1 \/ c.errno = 0}

\* get_readbuf_align: die_if(errno != 0) in case -1, the block size asked
\* of the device in cases -1 and 0 (an ioctl, which can fail).
Apply_get_readbuf_align ==
    /\ call.fn = "get_readbuf_align"
    /\ ~call.done
    /\ IF call.align_l = -1 /\ call.errno # 0
       THEN Return([exit |-> TRUE, err |-> "fpathconf", ret |-> 0])
       ELSE \/ Return([exit |-> FALSE, err |-> "",
                       ret |-> get_readbuf_align(call.align_l, call.block_size)])
            \/ /\ call.align_l \in {-1, 0}
               /\ Return([exit |-> TRUE, err |-> "ioctl(BLKPBSZGET)", ret |-> 0])


\* ---------------------------------------------------------------- humanize
\* humanize.c: the unit tables.
BINARY_IEC_UNITS ==
    <<"B", "KiB", "MiB", "GiB", "TiB", "PiB", "EiB", "ZiB", "YiB">>
SPEED_IEC_UNITS ==
    <<"B/s", "KiB/s", "MiB/s", "GiB/s", "TiB/s", "PiB/s", "EiB/s", "ZiB/s",
      "YiB/s">>
SECOND_FRACTION_UNITS == <<"ns", "us", "ms", "s">>

\* The functions of humanize.c are modelled at the program's own width.  A
\* value handed to humanize_value is written in the base of the ratio it is
\* divided by, lowest digit first: <<d0, d1, ..., dn>> stands for
\* d0 + d1 * ratio + ... + dn * ratio^n.  Every uint64_t is held exactly
\* that way, where TLC's integers end at 2^31 - 1.
RECURSIVE InBase(_, _)
InBase(n, ratio) ==
    IF n < ratio THEN <<n>> ELSE <<n % ratio>> \o InBase(n \div ratio, ratio)
\* The number written, where TLC's integers hold it.
RECURSIVE Val(_, _)
Val(x, ratio) ==
    IF x = <<>> THEN 0 ELSE Head(x) + ratio * Val(Tail(x), ratio)
\* The digits without leading zeros (0 is <<>>).
RECURSIVE Trim(_)
Trim(x) ==
    IF x # <<>> /\ x[Len(x)] = 0 THEN Trim(SubSeq(x, 1, Len(x) - 1)) ELSE x
\* A sum of digit * ratio^position terms, carried into digits below ratio.
RECURSIVE Carry(_, _, _)
Carry(x, ratio, carried) ==
    IF x = <<>>
    THEN IF carried = 0 THEN <<>> ELSE InBase(carried, ratio)
    ELSE <<(Head(x) + carried) % ratio>>
             \o Carry(Tail(x), ratio, (Head(x) + carried) \div ratio)

Quotient_DividedFirst(x, unit_exp) == SubSeq(x, unit_exp + 2, Len(x))

\* i = x / ratio^unit_exp after unit_exp rounds of i /= ratio: the digits
\* of its integer part, and the digits divided away.
Quotient(x, unit_exp) == SubSeq(x, unit_exp + 1, Len(x))
Remainder(x, unit_exp) == SubSeq(x, 1, unit_exp)
\* i >= ratio: the integer part of i has a digit above its lowest one.  (A
\* long double holds the quotients closely enough for the comparison with
\* the integer ratio to be that of the exact quotient.)
AtLeastRatio(i) == \E j \in 2..Len(i) : i[j] # 0

\* The for loop of humanize_value: unit_exp when it ends.
RECURSIVE humanize_loop(_, _, _)
humanize_loop(x, num_units, unit_exp) ==
    IF AtLeastRatio(Quotient(x, unit_exp)) /\ unit_exp < num_units
    THEN humanize_loop(x, num_units, unit_exp + 1)
    ELSE unit_exp

\* humanize_value: *result is whole + rest / ratio^unit_exp (both in
\* digits), *unit is units[unit_exp].  units[num_units] lies behind the
\* table; beyond is what is read there.
humanize_value(x, ratio, units, num_units, beyond) ==
    LET unit_exp == humanize_loop(x, num_units, 0)
    IN [unit_exp |-> unit_exp,
        whole |-> Quotient(x, unit_exp),
        rest |-> Remainder(x, unit_exp),
        unit |-> IF unit_exp < Len(units) THEN units[unit_exp + 1] ELSE beyond]

\* What a read behind the end of a unit table can find: the first entry of
\* the table that follows in memory, or no string at all.
BeyondTable == {"B", "B/s", "ns", "<no string>"}

\* UINT64_MAX = 18446744073709551615 in the bases of the callers.
Uint64MaxIn(ratio) ==
    CASE ratio = 1024 -> <<1023, 1023, 1023, 1023, 1023, 1023, 15>>
      [] ratio = 1000 -> <<615, 551, 709, 73, 744, 446, 18>>
      [] ratio = 2 -> [j \in 1..64 |-> 1]

\* Applications of humanize_value tried: the ratios and tables of the
\* callers (and ratio 2), on 0, on the powers of the ratio up to the tenth
\* with their neighbours, on the largest duration format_time_value passes
\* (59.999999999 s) and on UINT64_MAX.
HumanizeRatios == {2, 1000, 1024}
HumanizeTables == {BINARY_IEC_UNITS, SPEED_IEC_UNITS, SECOND_FRACTION_UNITS}
MaxExp == 10
PowerOfRatio(k) == [j \in 1..(k + 1) |-> IF j = k + 1 THEN 1 ELSE 0]
HumanizeValues(ratio) ==
    {<<>>, <<0>>, Uint64MaxIn(ratio)}
        \cup {PowerOfRatio(k) : k \in 0..MaxExp}
        \cup {[j \in 1..k |-> ratio - 1] : k \in 1..MaxExp}
        \cup {[PowerOfRatio(k) EXCEPT ![1] = 1] : k \in 1..MaxExp}
        \cup {<<ratio - 1, ratio - 1, ratio - 1, 59 % ratio>>}
HumanizeCalls ==
    UNION {{[fn |-> "humanize_value", x |-> x, ratio |-> ratio,
             units |-> units, done |-> FALSE] :
                x \in HumanizeValues(ratio), units \in HumanizeTables} :
           ratio \in HumanizeRatios}

Apply_humanize_value ==
    /\ call.fn = "humanize_value"
    /\ ~call.done
    /\ \E beyond \in BeyondTable :
         Return(humanize_value(call.x, call.ratio, call.units,
                               Len(call.units), beyond))

\* ------------------------------------------------------------ join_nonempty
\* A C string is a sequence of pieces, each of one or more characters (a
\* numeral, a unit name, a space); "" is <<>>.  A pointer to a string is that
\* string, or NULL, or Uninitialised (a char * that was never assigned).
NULL == "NULL"
Uninitialised == "uninitialised"

IsNonempty(str) == str # <<>>

\* The number of characters of a string.
RECURSIVE strlen(_)
strlen(str) == IF str = <<>> THEN 0 ELSE Len(Head(str)) + strlen(Tail(str))

\* The first pass: total_len before the separators are added.
RECURSIVE TotalLen(_)
TotalLen(strings) ==
    IF strings = <<>> THEN 0 ELSE strlen(Head(strings)) + TotalLen(Tail(strings))

\* The second pass: every non-empty string is copied and the separator
\* after it (two stpcpy calls per string).
RECURSIVE JoinPass(_, _)
JoinPass(strings, sep) ==
    IF strings = <<>>
    THEN <<>>
    ELSE (IF Head(strings) = <<>> THEN <<>> ELSE Head(strings) \o sep)
             \o JoinPass(Tail(strings), sep)

\* join_nonempty(&joined, strings, count, sep).  joined is *joined before
\* the call and malloc_ok whether malloc succeeds.  The result holds the
\* return value, *joined after the call, the size of the allocation and the
\* number of bytes the second pass wrote into it (terminator included).
join_nonempty(joined, strings, count, sep, malloc_ok) ==
    LET given == SubSeq(strings, 1, count)
        seplen == strlen(sep)
        nonempty_count == Len(SelectSeq(given, IsNonempty))
        total_len == TotalLen(given) + seplen * (nonempty_count - 1)
        new == JoinPass(given, sep)
    IN IF nonempty_count = 0
       THEN [ret |-> 0, joined |-> NULL, size |-> 0, written |-> 0]
       ELSE IF ~malloc_ok
            THEN [ret |-> -1, joined |-> joined, size |-> 0, written |-> 0]
            ELSE [ret |-> nonempty_count, joined |-> new,
                  size |-> total_len + 1, written |-> strlen(new) + 1]

\* Applications of join_nonempty tried: three strings, each empty or not,
\* with an empty and a two-character separator, into a pointer that is NULL
\* or was never assigned.
JoinStrings == {<<>>, <<"a">>, <<"b", "c">>}
JoinSeps == {<<>>, <<",", " ">>}
JoinCalls ==
    {[fn |-> "join_nonempty", joined |-> j, strings |-> strs, sep |-> sep,
      done |-> FALSE] :
        j \in {NULL, Uninitialised}, strs \in [1..3 -> JoinStrings],
        sep \in JoinSeps}

\* malloc succeeds or fails.  A second pass that writes more than was
\* allocated has overrun the heap block: the call returns all the same, or
\* the process is killed (crash).
Apply_join_nonempty ==
    /\ call.fn = "join_nonempty"
    /\ ~call.done
    /\ \E malloc_ok \in BOOLEAN :
         LET r == join_nonempty(call.joined, call.strings, Len(call.strings),
                                call.sep, malloc_ok)
             out == [ret |-> r.ret, joined |-> r.joined, size |-> r.size,
                     written |-> r.written, malloc_ok |-> malloc_ok,
                     crash |-> FALSE]
         IN \/ Return(out)
            \/ /\ r.written > r.size
               /\ Return([out EXCEPT !.crash = TRUE])

\* ---------------------------------------------------- durations as strings
\* A nanosecond count is held as [min, sec, nsec], standing for
\* min * SCALE_MIN + sec * SCALE_S + nsec with sec < 60 and nsec < SCALE_S,
\* which holds every uint64_t within TLC's integers.  Every scale from the
\* minute up is a whole number of minutes, so the divisions and remainders
\* of split_time are those of the three parts.  The scales from the minute
\* up are counted in minutes.
SCALE_NS == 1
SCALE_US == 1000 * SCALE_NS
SCALE_MS == 1000 * SCALE_US
SCALE_S == 1000 * SCALE_MS
SCALE_MIN == 1
SCALE_HOUR == 60 * SCALE_MIN
SCALE_DAY == 24 * SCALE_HOUR
SCALE_YEAR == 365 * SCALE_DAY
SCALE_MONTH == SCALE_YEAR \div 12

split_time_DaysOfTheYear(nanoseconds) ==
    LET years == nanoseconds.min \div SCALE_YEAR
        without_years == nanoseconds.min % SCALE_YEAR
        months == without_years \div SCALE_MONTH
        without_months == without_years % SCALE_MONTH
        days == without_years \div SCALE_DAY
        without_days == without_years % SCALE_DAY
        hours == without_days \div SCALE_HOUR
        without_hours == without_days % SCALE_HOUR
        minutes == without_hours \div SCALE_MIN
        \* without_minutes is sec * SCALE_S + nsec
        seconds == nanoseconds.sec + nanoseconds.nsec \div SCALE_S
        without_seconds == nanoseconds.nsec % SCALE_S
        miliseconds == without_seconds \div SCALE_MS
        without_miliseconds == without_seconds % SCALE_MS
        microseconds == without_miliseconds \div SCALE_US
        without_microseconds == without_miliseconds % SCALE_US
    IN [years |-> years, months |-> months, days |-> days, hours |-> hours,
        minutes |-> minutes, seconds |-> seconds,
        miliseconds |-> miliseconds, microseconds |-> microseconds,
        nanoseconds |-> without_microseconds \div SCALE_NS]

split_time(nanoseconds) ==
    LET years == nanoseconds.min \div SCALE_YEAR
        without_years == nanoseconds.min % SCALE_YEAR
        months == without_years \div SCALE_MONTH
        without_months == without_years % SCALE_MONTH
        days == without_months \div SCALE_DAY
        without_days == without_months % SCALE_DAY
        hours == without_days \div SCALE_HOUR
        without_hours == without_days % SCALE_HOUR
        minutes == without_hours \div SCALE_MIN
        \* without_minutes is sec * SCALE_S + nsec
        seconds == nanoseconds.sec + nanoseconds.nsec \div SCALE_S
        without_seconds == nanoseconds.nsec % SCALE_S
        miliseconds == without_seconds \div SCALE_MS
        without_miliseconds == without_seconds % SCALE_MS
        microseconds == without_miliseconds \div SCALE_US
        without_microseconds == without_miliseconds % SCALE_US
    IN [years |-> years, months |-> months, days |-> days, hours |-> hours,
        minutes |-> minutes, seconds |-> seconds,
        miliseconds |-> miliseconds, microseconds |-> microseconds,
        nanoseconds |-> without_microseconds \div SCALE_NS]

\* snprintf(buf, size, "%u %s", value, unit), or "" for 0
nonzero_value_to_str(value, unit) ==
    IF value # 0 THEN <<ToString(value), " ", unit>> ELSE <<>>

\* n in decimal, width digits
RECURSIVE Digits(_, _)
Digits(n, width) ==
    IF width = 0 THEN "" ELSE Digits(n \div 10, width - 1) \o ToString(n % 10)

\* printf("%.*Lf", precision, value) for value = whole + rest / den, den a
\* power of 1000 and precision a multiple of 3: the value is rounded to
\* precision decimals.  A value halfway between two numerals is rounded by
\* the binary long double that stands for it: up if tie_up.
FormatLf(value, precision, tie_up) ==
    LET scale == 10 ^ precision
        step == value.den \div scale
        exact == value.den <= scale
        frac == IF exact THEN value.rest * (scale \div value.den)
                ELSE value.rest \div step
        left == IF exact THEN 0 ELSE value.rest % step
        up == ~exact /\ (2 * left > step \/ (2 * left = step /\ tie_up))
        units == value.whole * scale + frac + (IF up THEN 1 ELSE 0)
    IN IF precision = 0
       THEN ToString(units)
       ELSE ToString(units \div scale) \o "." \o Digits(units % scale, precision)

seconds_precision_printed_SubSecond(seconds_and_fractions_ns, v, seconds_precision) ==
    IF v.seconds = 0 THEN 0 ELSE seconds_precision

\* if (seconds_and_fractions_ns == v->nanoseconds) seconds_precision = 0;
\* the precision handed to snprintf.
seconds_precision_printed(seconds_and_fractions_ns, v, seconds_precision) ==
    IF Trim(seconds_and_fractions_ns) = Trim(InBase(v.nanoseconds, 1000))
    THEN 0
    ELSE seconds_precision

\* format_time_value(v, seconds_precision).  beyond is what lies behind
\* SECOND_FRACTION_UNITS, malloc_ok and tie_up as above.  str is the pointer
\* returned; join is what join_nonempty did.
format_time_value(v, seconds_precision, beyond, malloc_ok, tie_up) ==
    LET sep == <<",", " ">>
        \* v->nanoseconds*SCALE_NS + v->microseconds*SCALE_US
        \*     + v->miliseconds*SCALE_MS + v->seconds*SCALE_S,
        \* in base 1000: the scales are 1000^0, 1000^1, 1000^2, 1000^3
        seconds_and_fractions_ns ==
            Carry(<<v.nanoseconds, v.microseconds, v.miliseconds, v.seconds>>,
                  1000, 0)
        humanized ==
            humanize_value(seconds_and_fractions_ns, 1000,
                           SECOND_FRACTION_UNITS, Len(SECOND_FRACTION_UNITS),
                           beyond)
        seconds_and_fractions ==
            [whole |-> Val(humanized.whole, 1000),
             rest |-> Val(humanized.rest, 1000),
             den |-> 1000 ^ humanized.unit_exp]
        precision == seconds_precision_printed(seconds_and_fractions_ns, v,
                                               seconds_precision)
        strings == <<nonzero_value_to_str(v.years, "years"),
                     nonzero_value_to_str(v.months, "months"),
                     nonzero_value_to_str(v.days, "days"),
                     nonzero_value_to_str(v.hours, "h"),
                     nonzero_value_to_str(v.minutes, "m"),
                     <<FormatLf(seconds_and_fractions, precision, tie_up),
                       " ", humanized.unit>> >>
        joined == join_nonempty(Uninitialised, strings, Len(strings), sep,
                                malloc_ok)
    IN [str |-> joined.joined, join |-> joined, v |-> v,
        seconds_and_fractions_ns |-> seconds_and_fractions_ns,
        humanized |-> humanized,
        precision |-> precision, malloc_ok |-> malloc_ok, crash |-> FALSE]

humanize_time(nanoseconds, seconds_precision, beyond, malloc_ok, tie_up) ==
    format_time_value(split_time(nanoseconds), seconds_precision, beyond,
                      malloc_ok, tie_up)

\* UINT64_MAX nanoseconds: 584 years and more.
Uint64MaxDuration == [min |-> 307445734, sec |-> 33, nsec |-> 709551615]

\* Durations tried: every combination of none or one of each unit from the
\* year down to the second, the largest counts of each unit, the last
\* minute before a month and a year are full, with sub-second parts around
\* the unit changes and the rounding points; and UINT64_MAX.
DurationMins ==
    {y * SCALE_YEAR + mo * SCALE_MONTH + d * SCALE_DAY + h * SCALE_HOUR
         + mi * SCALE_MIN :
        y \in {0, 1}, mo \in {0, 1}, d \in {0, 1}, h \in {0, 1},
        mi \in {0, 1}}
      \cup {SCALE_MONTH - 1, SCALE_YEAR - 1, 584 * SCALE_YEAR + SCALE_YEAR - 1,
            11 * SCALE_MONTH + 29 * SCALE_DAY + 23 * SCALE_HOUR
                + 59 * SCALE_MIN}
DurationSecs == {0, 1, 59}
DurationNsecs ==
    {0, 1, 999, 1000, 1500, 999999, 1000000, 1000500, 999999499, 999999500,
     999999999}
HumanizeTimeCalls ==
    {[fn |-> "humanize_time", nanoseconds |-> nanoseconds,
      seconds_precision |-> p, done |-> FALSE] :
        nanoseconds \in [min : DurationMins, sec : DurationSecs,
                         nsec : DurationNsecs] \cup {Uint64MaxDuration},
        p \in {0, 3}}

\* The string is built (or not, when malloc fails); the overrun of
\* join_nonempty lets the call return or kills the process.
Apply_humanize_time ==
    /\ call.fn = "humanize_time"
    /\ ~call.done
    /\ \E malloc_ok \in BOOLEAN, tie_up \in BOOLEAN :
         LET out == humanize_time(call.nanoseconds, call.seconds_precision,
                                  "<no string>", malloc_ok, tie_up)
         IN \/ Return(out)
            \/ /\ out.join.written > out.join.size
               /\ Return([out EXCEPT !.crash = TRUE])

\* ------------------------------------------------ the functions' behaviours
Calls ==
    Pow2Calls \cup AlignCeilCalls \cup HumanizeCalls \cup JoinCalls
        \cup HumanizeTimeCalls \cup ReadbufAlignCalls

FnInit ==
    /\ NoRun
    /\ call \in Calls

FnNext ==
    \/ Apply_smallest_power_of_2_that_holds
    \/ Apply_align_ceil
    \/ Apply_humanize_value
    \/ Apply_join_nonempty
    \/ Apply_humanize_time
    \/ Apply_get_readbuf_align

FnSpec == FnInit /\ [][FnNext]_vars

\* ------------------------------------------------------------------ claims
Terminated == pc \in {"exit_success", "exit_failure", "fault", "abort"}
SeqAuto == args.read_size = 0
SeekAuto == args.num_seeks = 0
\* The descriptor passed the checks the specification asks of the prober.
Validated ==
    /\ hist.probed
    /\ 0 < dev_info.block_size
    /\ dev_info.block_size <= dev_info.dev_size

\* C1: in autodetect mode, once the sequential sizing loop has terminated,
\* the cumulative elapsed time is at least MIN_AUTO_SEQ_READ_NS or the next
\* candidate size exceeds MAX_AUTO_SEQ_READ_BYTES.
C1_SeqLoopExit ==
    (SeqAuto /\ hist.seq_done) =>
        \/ seq.total_read_ns >= MIN_AUTO_SEQ_READ_NS
        \/ seq.read_size > MAX_AUTO_SEQ_READ_BYTES
\* The loop ended at the ceiling with the time threshold not reached.
C1_Witness ==
    /\ SeqAuto
    /\ hist.seq_done
    /\ seq.total_read_ns < MIN_AUTO_SEQ_READ_NS
    /\ seq.read_size > MAX_AUTO_SEQ_READ_BYTES

\* What C2 bounds: the number of trials of each autodetect loop and the
\* size or count each trial is started with.
TrialBounds ==
    /\ SeqAuto => hist.seq_trials <= 5
    /\ (SeqAuto /\ pc = "seq_trial") =>
           seq.read_size = DEFAULT_SEQ_READ_BYTES * 2 ^ hist.seq_trials
    /\ SeekAuto => hist.seek_trials <= 8
    /\ (SeekAuto /\ pc = "seek_trial") =>
           seek.num_seeks = DEFAULT_RAND_READ_SEEKS * 2 ^ hist.seek_trials

\* C2: both adaptive loops terminate whatever the trials measure: at most 5
\* sequential trials (64, 128, ..., 1024 MiB) and at most 8 seek trials (200,
\* 400, ..., 25600 seeks) are run, and every run comes to its end.
C2_LoopsTerminate == []TrialBounds /\ <>Terminated
\* Both loops ran to their ceilings (every trial measured below the
\* thresholds) and the run completed.
C2_Witness ==
    /\ SeqAuto
    /\ SeekAuto
    /\ hist.seq_trials = 5
    /\ hist.seek_trials = 8
    /\ seek.total_ns = 0
    /\ pc = "exit_success"

\* C3: in autodetect mode the sequential test reports the bytes and the
\* elapsed time summed over all the trials it ran, and the per-block time is
\* the summed time divided by the summed bytes counted in blocks (where that
\* quotient is defined: no division by zero has been carried on from).
SeqBlocksRead ==
    IF dev_info.block_size = 0 THEN 0 ELSE hist.seq_bytes \div dev_info.block_size
C3_SeqAutoTotals ==
    (SeqAuto /\ hist.seq_done) =>
        /\ res.seq_read_bytes = hist.seq_bytes
        /\ res.seq_read_ns = hist.seq_ns
        /\ SeqBlocksRead > 0 =>
               res.block_read_ns = hist.seq_ns \div SeqBlocksRead
\* Several trials were run and the result differs from the per-block time of
\* the last one.
C3_Witness ==
    /\ SeqAuto
    /\ hist.seq_done
    /\ hist.seq_trials >= 2
    /\ res.seq_read_ns > trial.delta_ns
    /\ res.block_read_ns # trial.ret
    /\ res.block_read_ns > 0

\* C4: with an explicit read size s and an explicit seek count n the run does
\* one sequential trial of two reads and one seek trial of n reads; the record
\* holds that trial's bytes, 2 * min(align_ceil(s, alignment), dev_size), its
\* elapsed time, and num_seeks = n.
C4_ExplicitSingleTrials ==
    (~SeqAuto /\ ~SeekAuto /\ pc \in {"close", "print_benchmarks", "exit_success"}) =>
        /\ hist.seq_trials = 1
        /\ hist.seq_reads = 2
        /\ hist.seek_trials = 1
        /\ hist.seek_reads = args.num_seeks
        /\ res.seq_read_bytes =
               2 * Min(align_ceil(args.read_size, dev_info.alignment),
                       dev_info.dev_size)
        /\ res.seq_read_ns = hist.seq_ns
        /\ res.total_randaccess_ns = hist.seek_ns
        /\ res.num_seeks = args.num_seeks
\* An explicit run on a validated device completed, reading less than the
\* whole device.
C4_Witness ==
    /\ ~SeqAuto
    /\ ~SeekAuto
    /\ Validated
    /\ pc = "exit_success"
    /\ args.num_seeks = 2
    /\ res.seq_read_bytes = 2 * args.read_size
    /\ args.read_size < dev_info.dev_size
    /\ res.seq_read_ns > 0

\* The seek count and the elapsed time the reported seek time is computed
\* from: those of the single trial, or the totals of the autodetect loop.
SeeksDone == IF SeekAuto THEN seek.total_seeks ELSE args.num_seeks

\* C5 (as claimed): whenever the measured total is below block_read_ns * N,
\* the product taken over the integers, the computed seek time is 0.
\* total < block_read_ns * N is written total \div N < block_read_ns.
C5_SeekTimeFloored ==
    (hist.seek_done /\ res.total_randaccess_ns \div SeeksDone < res.block_read_ns) =>
        res.seek_ns = 0

\* C6: the seek autodetect loop starts its trials with 200, 400, 800, ...
\* seeks, starts one only while the cumulative time is below 1 s and the
\* count is at most 25600, and is left with the cumulative time at least 1 s
\* or the next count above 25600.
C6_SeekAutoLoop ==
    /\ (SeekAuto /\ pc \in {"seek_trial", "seek_reads", "seek_trial_end"}) =>
           /\ seek.num_seeks = DEFAULT_RAND_READ_SEEKS * 2 ^ (hist.seek_trials -
                                   (IF pc = "seek_trial" THEN 0 ELSE 1))
           /\ seek.num_seeks <= MAX_AUTO_RAND_READ_SEEKS
           /\ seek.total_ns < MIN_AUTO_RAND_READ_NS
           /\ seek.total_ns = hist.seek_ns
    /\ (SeekAuto /\ hist.seek_done) =>
           \/ seek.total_ns >= MIN_AUTO_RAND_READ_NS
           \/ seek.num_seeks > MAX_AUTO_RAND_READ_SEEKS
\* The loop was left on the time threshold after more than one trial.
C6_Witness ==
    /\ SeekAuto
    /\ hist.seek_done
    /\ hist.seek_trials = 3
    /\ seek.num_seeks = 1600
    /\ seek.total_ns >= MIN_AUTO_RAND_READ_NS

\* C7: on a validated descriptor every read of a seek trial is one block at
\* a block index below num_blocks and ends inside the device, whatever the
\* generator returns.
C7_SeekReadsInDevice ==
    Validated =>
        /\ pc = "seek_reads" =>
               \A r \in 0..RAND_MAX :
                   BlockIdxOf(r, dev_info.num_blocks) < dev_info.num_blocks
        /\ \A rd \in seek_io :
               /\ rd.len = dev_info.block_size
               /\ \E idx \in 0..(dev_info.num_blocks - 1) :
                      rd.off = idx * dev_info.block_size
               /\ rd.off + rd.len <= dev_info.dev_size
\* A seek trial read the last block of a device of several blocks, and
\* another block too.
C7_Witness ==
    /\ Validated
    /\ pc = "seek_trial_end"
    /\ dev_info.num_blocks > 2
    /\ \E rd \in seek_io : rd.off + rd.len = dev_info.dev_size
    /\ Cardinality(seek_io) > 1

\* How many of the generator's values lead to block index i.
DrawsFor(i, num_blocks) ==
    Cardinality({r \in 0..RAND_MAX : BlockIdxOf(r, num_blocks) = i})

\* C8 (as claimed): for a device of at most RAND_MAX + 1 blocks the draws of
\* a seek trial reach every block index, and no index is drawn more often
\* than another (by more than the one draw a remainder forces).
C8_UniformBlockIdx ==
    (Validated /\ pc = "seek_reads" /\ dev_info.num_blocks <= RAND_MAX + 1) =>
        /\ BlockIdxRange(dev_info.num_blocks) = 0..(dev_info.num_blocks - 1)
        /\ \A i, j \in 0..(dev_info.num_blocks - 1) :
               DrawsFor(i, dev_info.num_blocks)
                   <= DrawsFor(j, dev_info.num_blocks) + 1

\* C9: a sequential trial issues two reads of the same size, the size asked
\* for rounded up to the alignment and clamped to the device size: the first
\* at offset 0, the second ending at the device's last byte; both lie inside
\* the device, and the trial reports twice that size.
C9_SeqTrialReads ==
    /\ Len(seq_io) <= 2
    /\ pc \in {"seq_read1", "seq_read2", "seq_trial_end"} =>
           /\ trial.size = Min(align_ceil(seq.read_size, dev_info.alignment),
                               dev_info.dev_size)
           /\ trial.size <= dev_info.dev_size
    /\ pc = "seq_read1" => seq_io = <<>>
    /\ pc = "seq_read2" => seq_io = <<[off |-> 0, len |-> trial.size]>>
    /\ pc = "seq_trial_end" =>
           /\ seq_io = <<[off |-> 0, len |-> trial.size],
                         [off |-> dev_info.dev_size - trial.size,
                          len |-> trial.size]>>
           /\ seq_io[2].off + seq_io[2].len = dev_info.dev_size
    /\ \A i \in DOMAIN seq_io :
           /\ seq_io[i].off >= 0
           /\ seq_io[i].off + seq_io[i].len <= dev_info.dev_size
    /\ (pc \in {"seq_loop", "init_randomness"} /\ hist.seq_trials > 0) =>
           /\ trial.bytes = 2 * trial.size
           /\ hist.seq_reads = 2 * hist.seq_trials
\* Both reads of a trial were issued on a device smaller than the aligned
\* size asked for: the size was clamped.
C9_Witness ==
    /\ pc = "seq_trial_end"
    /\ Validated
    /\ align_ceil(seq.read_size, dev_info.alignment) > dev_info.dev_size
    /\ Len(seq_io) = 2
    /\ trial.size = dev_info.dev_size

\* The block size and the device size were discovered: open and both ioctls
\* of get_blkdev_info succeeded.
Discovered ==
    /\ pc \notin {"main", "get_blkdev_info"}
    /\ err \notin {"open", "ioctl(BLKPBSZGET)", "ioctl(BLKGETSIZE64)"}

\* C10 (as claimed): a device whose block size is 0 or exceeds its size ends
\* the run with the configuration error, before any read; nothing else
\* happens.
C10_BadBlockSizeRejected ==
    (Discovered /\ (dev_info.block_size = 0
                       \/ dev_info.block_size > dev_info.dev_size)) =>
        /\ pc = "exit_failure"
        /\ err = "error: block size is greater than device itself"
        /\ hist.reads = 0

IsPowerOf2(n) == \E e \in 0..Bits64 : n = 2 ^ e

\* C11 (as claimed): the alignment stored in the descriptor the prober
\* returns is a power of two >= 1, whatever the OS reported.
C11_AlignmentPowerOf2 ==
    Validated => IsPowerOf2(dev_info.alignment)

Returned(fn) == call.fn = fn /\ call.done

\* C12: smallest_power_of_2_that_holds(0) returns 1; for 0 < x <= 2^(w-1)
\* it returns the power of two p with p/2 < x <= p, and returns p again when
\* applied to p; for x > 2^(w-1) it does not return: it exits with an error.
C12_SmallestPowerOf2 ==
    Returned("smallest_power_of_2_that_holds") =>
        LET x == call.in.x
            p == call.out.ret
        IN /\ x = 0 => (~call.out.exit /\ p = 1)
           /\ (0 < x /\ x <= 2 ^ (UIntBits - 1)) =>
                  /\ ~call.out.exit
                  /\ IsPowerOf2(p)
                  /\ p < 2 * x
                  /\ x <= p
                  /\ smallest_power_of_2_that_holds(p) = call.out
           /\ x > 2 ^ (UIntBits - 1) => call.out.exit
\* The function rounded a value that is not a power of two up to the
\* largest power of two an unsigned int holds.
C12_Witness ==
    /\ Returned("smallest_power_of_2_that_holds")
    /\ ~call.out.exit
    /\ call.out.ret = 2 ^ (UIntBits - 1)
    /\ call.in.x < call.out.ret
    /\ call.in.x > 2

\* C13 (as claimed): for every power-of-two alignment a and every x of
\* size_t, align_ceil(x, a) is a multiple of a and is at least x.
C13_AlignCeil ==
    (Returned("align_ceil") /\ IsPowerOf2(call.in.alignment)) =>
        /\ call.out % call.in.alignment = 0
        /\ call.out >= call.in.n

\* C14 (as claimed): humanizing 0 gives value 0 in the base unit; humanizing
\* ratio^k gives value 1 at unit index k while k is an index of the table,
\* and the last index of the table when k is beyond it.
C14_HumanizePowers ==
    Returned("humanize_value") =>
        LET last == Len(call.in.units) - 1
        IN /\ Trim(call.in.x) = <<>> =>
                  /\ Trim(call.out.whole) = <<>>
                  /\ Trim(call.out.rest) = <<>>
                  /\ call.out.unit = call.in.units[1]
           /\ \A k \in 0..MaxExp :
                  call.in.x = PowerOfRatio(k) =>
                      IF k <= last
                      THEN /\ Trim(call.out.whole) = <<1>>
                           /\ Trim(call.out.rest) = <<>>
                           /\ call.out.unit = call.in.units[k + 1]
                      ELSE call.out.unit = call.in.units[last + 1]

\* The non-empty strings of the call, in input order.
NonemptyIn == SelectSeq(call.in.strings, IsNonempty)
\* strs with sep between consecutive strings only.
RECURSIVE JoinBetween(_, _)
JoinBetween(strs, sep) ==
    IF strs = <<>>
    THEN <<>>
    ELSE IF Len(strs) = 1
         THEN Head(strs)
         ELSE Head(strs) \o sep \o JoinBetween(Tail(strs), sep)

\* C16 (as claimed): join_nonempty returns N, the number of non-empty
\* strings, and for N >= 1 the string it produces is exactly those strings in
\* input order with the separator between consecutive ones only (N - 1
\* separators), written inside the memory allocated for it.
C16_JoinSeparators ==
    (Returned("join_nonempty") /\ call.out.malloc_ok) =>
        /\ call.out.ret = Len(NonemptyIn)
        /\ Len(NonemptyIn) >= 1 =>
               /\ ~call.out.crash
               /\ call.out.joined = JoinBetween(NonemptyIn, call.in.sep)
               /\ call.out.written <= call.out.size

\* C17 (as claimed): when all strings are empty join_nonempty sets *joined
\* to NULL and returns 0; when the allocation fails it sets *joined to NULL
\* and returns a negative number.
C17_JoinNull ==
    Returned("join_nonempty") =>
        /\ Len(NonemptyIn) = 0 =>
               (call.out.joined = NULL /\ call.out.ret = 0)
        /\ (Len(NonemptyIn) > 0 /\ ~call.out.malloc_ok) =>
               (call.out.joined = NULL /\ call.out.ret < 0)

\* The unit name is part of the string.
Appears(str, unit) == \E i \in DOMAIN str : str[i] = unit
\* The seconds-and-fractions component is part of the string.
SecondsAppear(str) ==
    \E i \in DOMAIN SECOND_FRACTION_UNITS :
        Appears(str, SECOND_FRACTION_UNITS[i])

\* C15 (as claimed): the string humanize_time builds holds a component
\* exactly if its value is not zero: years, months, days, hours, minutes,
\* and the seconds with their fractions.
C15_NonzeroComponents ==
    (Returned("humanize_time") /\ call.out.malloc_ok /\ ~call.out.crash) =>
        LET v == call.out.v
            str == call.out.str
        IN /\ Appears(str, "years") <=> v.years # 0
           /\ Appears(str, "months") <=> v.months # 0
           /\ Appears(str, "days") <=> v.days # 0
           /\ Appears(str, "h") <=> v.hours # 0
           /\ Appears(str, "m") <=> v.minutes # 0
           /\ SecondsAppear(str) <=> Trim(call.out.seconds_and_fractions_ns) # <<>>

\* The steps of a run, in the order claimed.
RunOrder == <<"probe", "seq", "seed", "seek", "close", "report">>

\* C18: a run that ends in success has taken each step exactly once, in the
\* order device probing, sequential read test, seeding of the random
\* numbers, seek test, closing of the device, report; and every read is
\* issued after the probing has completed and while the device is open,
\* before its closing.
C18_StepOrder ==
    /\ [](pc = "exit_success" => hist.order = RunOrder)
    /\ [][hist.reads' # hist.reads =>
              /\ hist.probed
              /\ fd_open /\ fd_open'
              /\ hist.order = <<"probe">> \/ hist.order = <<"probe", "seq", "seed">>]_vars
\* A successful run in which both tests sized themselves and issued reads.
C18_Witness ==
    /\ pc = "exit_success"
    /\ hist.order = RunOrder
    /\ hist.seq_trials >= 2 /\ hist.seek_trials >= 2
    /\ hist.seq_reads > 0 /\ hist.seek_reads > 0
    /\ ~fd_open

\* A trial is between its allocation and its free().
InTrial ==
    pc \in {"seq_read1", "seq_read2", "seq_trial_end", "seek_reads",
            "seek_trial_end"}
\* Between two trials, or after a benchmark function has returned.
OutsideTrial ==
    pc \in {"seq_loop", "seq_trial", "init_randomness", "get_seek_ns",
            "seek_loop", "seek_trial", "run_benchmarks_end", "close",
            "print_benchmarks", "exit_success"}

\* C19: at most one read buffer is live at any point of a run; the buffer
\* of a trial is live while the trial runs, and none is live between two
\* trials or after a benchmark function has returned, whichever the mode.
C19_BufferPerTrial ==
    /\ buffers \in {0, 1}
    /\ InTrial => buffers = 1
    /\ OutsideTrial => buffers = 0
\* Between two trials of the seek test, after several trials of both tests.
C19_Witness ==
    /\ pc = "seek_trial"
    /\ hist.seq_trials >= 2
    /\ hist.seek_trials >= 1
    /\ buffers = 0

\* What die_if and the exit(1) branches report.
FailureMessages ==
    {"open", "ioctl(BLKPBSZGET)", "ioctl(BLKGETSIZE64)", "fpathconf",
     "lseek64", "read", "clock_gettime", "clock_getres", "posix_memalign",
     "error: block size is greater than device itself",
     "error: doesn't fit in largest power of 2 an unsigned int can hold"}
ReportPrinted == \E i \in DOMAIN hist.order : hist.order[i] = "report"

InSeqTrial == pc \in {"seq_read1", "seq_read2", "seq_trial_end"}

TotalCoversEstimate ==
    SeeksDone > 0 /\ hist.seek_ns \div SeeksDone >= res.block_read_ns

\* C22: once the seek test is done, if the time measured over all its
\* trials is at least block_read_ns * N, the seek time is
\* (total - block_read_ns * N) / N and the reported reading time is
\* block_read_ns * N, N being the count of the single explicit trial or the
\* sum of the counts of the autodetect trials; the reported reading time is
\* always the 64-bit product for that N.
C22_SeekTimeFromTotals ==
    hist.seek_done =>
        /\ SeeksDone = hist.seek_reads
        /\ res.randaccess_reading_ns = ReadingNs(res.block_read_ns, hist.seek_reads)
        /\ TotalCoversEstimate =>
               /\ res.randaccess_reading_ns = res.block_read_ns * hist.seek_reads
               /\ res.seek_ns =
                      (hist.seek_ns - res.block_read_ns * hist.seek_reads)
                          \div hist.seek_reads
\* Two autodetect trials, 600 seeks in all, with a per-block time and a
\* seek time that are not zero.
C22_Witness ==
    /\ SeekAuto
    /\ hist.seek_done
    /\ hist.seek_trials = 2
    /\ hist.seek_reads = 600
    /\ res.block_read_ns > 0
    /\ TotalCoversEstimate
    /\ res.randaccess_reading_ns = 600 * res.block_read_ns
    /\ res.seek_ns > 0
    /\ res.seek_ns # trial.ret

\* run_benchmarks has returned.
AfterRunBenchmarks == pc \in {"close", "print_benchmarks", "exit_success"}

\* C23 (as claimed): after run_benchmarks the seek count of the record is the
\* number of random reads the seek test performed, with an explicit count
\* and in autodetect mode (the sum of the counts of the trials run).
C23_SeekCountRecorded ==
    AfterRunBenchmarks => res.num_seeks = hist.seek_reads

\* C24 (as claimed): on a validated descriptor with an alignment of at least
\* 1 and a requested read size of at least 1, the divisor of the per-block
\* time is at least 1: (aligned_read_size * 2) / block_size when a trial
\* returns, total_bytes / block_size when the autodetect loop is left.
C24_DivisorPositive ==
    (Validated /\ dev_info.alignment >= 1) =>
        /\ (pc = "seq_trial_end" /\ seq.read_size >= 1) =>
               UDiv(TrialBytes(trial.size), dev_info.block_size) >= 1
        /\ (SeqAuto /\ pc = "seq_loop"
                /\ ~SeqLoopCond(seq.total_read_ns, seq.read_size)) =>
               UDiv(seq.total_bytes, dev_info.block_size) >= 1

\* The read starts and ends on a multiple of the alignment.
AlignedRead(rd, alignment) == rd.off % alignment = 0 /\ rd.len % alignment = 0

\* C25 (as claimed): on a validated descriptor every read of the sequential
\* test and of the seek test has an offset and a length that are multiples
\* of the descriptor's alignment.
C25_ReadsAligned ==
    (Validated /\ dev_info.alignment >= 1) =>
        /\ \A i \in DOMAIN seq_io : AlignedRead(seq_io[i], dev_info.alignment)
        /\ \A rd \in seek_io : AlignedRead(rd, dev_info.alignment)

C27_JoinWithinAllocation ==
    /\ (Returned("join_nonempty") /\ call.out.malloc_ok) =>
           call.out.written <= call.out.size
    /\ (Returned("humanize_time") /\ call.out.malloc_ok) =>
           call.out.join.written <= call.out.join.size

\* a <= b, for numbers written as digits in the same base.
RECURSIVE NotAbove(_, _)
NotAbove(a, b) ==
    LET x == Trim(a)
        y == Trim(b)
    IN IF Len(x) # Len(y) THEN Len(x) < Len(y)
       ELSE IF x = <<>> THEN TRUE
       ELSE IF x[Len(x)] # y[Len(y)] THEN x[Len(x)] < y[Len(y)]
       ELSE NotAbove(SubSeq(x, 1, Len(x) - 1), SubSeq(y, 1, Len(y) - 1))
\* The applications of humanize_value this program makes: any uint64_t
\* with ratio 1024 and an IEC table, and less than 60 s in nanoseconds with
\* ratio 1000 and the second-fraction table.
IECApplication ==
    /\ Returned("humanize_value")
    /\ call.in.ratio = 1024
    /\ call.in.units \in {BINARY_IEC_UNITS, SPEED_IEC_UNITS}
    /\ NotAbove(call.in.x, Uint64MaxIn(1024))
SecondsApplication ==
    /\ Returned("humanize_value")
    /\ call.in.ratio = 1000
    /\ call.in.units = SECOND_FRACTION_UNITS
    /\ NotAbove(call.in.x, <<999, 999, 999, 59>>)
\* The value handed back, times ratio^index, is the value handed in.
Recomposes(x, humanized) ==
    LET fraction == Trim(humanized.rest)
    IN /\ Len(fraction) <= humanized.unit_exp
       /\ Trim(fraction
                 \o [j \in 1..(humanized.unit_exp - Len(fraction)) |-> 0]
                 \o humanized.whole) = Trim(x)

C29_SplitTimeLosesNothing ==
    Returned("humanize_time") =>
        LET v == call.out.v
            n == call.in.nanoseconds
        IN /\ v.years * SCALE_YEAR + v.months * SCALE_MONTH
                  + v.days * SCALE_DAY + v.hours * SCALE_HOUR
                  + v.minutes * SCALE_MIN = n.min
           /\ v.seconds = n.sec
           /\ v.miliseconds * SCALE_MS + v.microseconds * SCALE_US
                  + v.nanoseconds * SCALE_NS = n.nsec
           /\ v.years >= 0
           /\ v.months \in 0..11
           /\ v.days \in 0..30
           /\ v.hours \in 0..23
           /\ v.minutes \in 0..59
           /\ v.seconds \in 0..59
           /\ v.miliseconds \in 0..999
           /\ v.microseconds \in 0..999
           /\ v.nanoseconds \in 0..999
C29_Witness ==
    /\ Returned("humanize_time")
    /\ call.in.nanoseconds = Uint64MaxDuration
    /\ call.out.v.years = 584
    /\ call.out.v.months > 0
    /\ call.out.v.seconds = 33
    /\ call.out.v.nanoseconds = 615

\* The fields of split_time above the nanoseconds and below the minute are
\* all zero.
NanosecondsOnly(v) ==
    v.seconds = 0 /\ v.miliseconds = 0 /\ v.microseconds = 0

\* C30: format_time_value prints the seconds component with precision 0
\* exactly when the seconds, milliseconds and microseconds fields are all
\* zero, and the unit printed is then ns; in every other case it prints
\* with the precision the caller gave.
C30_PrecisionForced ==
    Returned("humanize_time") =>
        /\ call.out.precision
               = IF NanosecondsOnly(call.out.v)
                 THEN 0
                 ELSE call.in.seconds_precision
        /\ NanosecondsOnly(call.out.v) => call.out.humanized.unit = "ns"
C30_Witness ==
    /\ Returned("humanize_time")
    /\ call.in.seconds_precision = 3
    /\ NanosecondsOnly(call.out.v)
    /\ call.out.v.nanoseconds = 999
    /\ call.out.v.minutes = 1
    /\ call.out.precision = 0
    /\ call.out.humanized.unit = "ns"


====
